---- MODULE Spec2Model ----
(***************************************************************************)
(* Locomotion, collision and exterior/interior scene switching of the      *)
(* first-person game (src/main.js, components/Player.js, World.js,         *)
(* ChestSystem.js).                                                         *)
(*                                                                         *)
(* Fixed-point units.  Lengths are in 1/40 of a world unit, times in       *)
(* steps of 0.05 s, vertical velocity in steps of 0.5 unit/s, so that      *)
(*   position.y += velocity.y * delta   is   y + vy * dt                   *)
(*   velocity.y -= gravity * delta      is   vy - Gravity * dt             *)
(* with integers only.  A diagonal of length d is d * 1.4142, rounded down *)
(* to the grid where a position is assigned.                               *)
(***************************************************************************)
EXTENDS Integers, Sequences, FiniteSets, TLC

\* ---------------------------------------------------------------- bounds
\* Half-width of the grid window (in blocks) the avatar is followed in.
ArenaX == 1
ArenaZ == 2
\* Longest frame, in steps of 0.05 s.
MaxDelta == 2
\* Blocks per side of the height map of the model world.
WorldSize == 6
\* Half-width of the part of the room followed, in half blocks.
RoomReach == 1
\* Fastest fall followed, in steps of 0.5 unit/s.
MaxFall == 40
\* Longest real frame followed, in time steps (0.2 s).
MaxFrame == 4
\* Height queries: points every QueryStep length units, up to QueryReach
\* steps from the centre of the world, past its edge on every side.
QueryStep == 20
QueryReach == 7
\* Height of a hill of the noise, in length units.
NoiseLevel == 80

\* ------------------------------------------------------ program constants
BlockSize == 40            \* World.blockSize = 1
Height == 64               \* Player.height = 1.6
Radius == 20               \* Player.radius = 0.5
Speed == 20                \* Player.speed = 10.0 per second
JumpHeight == 20           \* Player.jumpHeight = 10.0
Gravity == 3               \* Player.gravity = 30.0
InteractionDistance == 120 \* door / chest reach, 3 units
SlopeLimit == 40           \* heightDifference > 1.0
CeilingBuffer == 20        \* this.height + 0.5
CeilingPush == 4           \* pushBack (0, -0.1, 0)
MoveDistance == 80         \* exitBuilding moveDistance = 2

Abs(n) == IF n < 0 THEN -n ELSE n
Max2(a, b) == IF a >= b THEN a ELSE b
Min2(a, b) == IF a <= b THEN a ELSE b
\* Math.ceil of n / d, d > 0
CeilDiv(n, d) == -((-n) \div d)

Vec(px, py, pz) == [x |-> px, y |-> py, z |-> pz]

\* ---------------------------------------------------------------- terrain
\* Height maps such as World.generateTerrain fills from noise, constant
\* along x.  Rolling: level ground that rises gently towards the building.
\* Bank: level ground that ends at a steep bank behind the starting point.
Rolling == [iz \in 0..(WorldSize - 1) |-> IF iz <= 2 THEN 16 ELSE 0]
Bank == [iz \in 0..(WorldSize - 1) |-> IF iz >= 5 THEN 100 ELSE 0]
\* Ledge: high ground that drops in front of the starting point.
Ledge == [iz \in 0..(WorldSize - 1) |-> IF iz >= 3 THEN 100 ELSE 0]
\* Cliff: level ground with a steep rise in front of the starting point.
Cliff == [iz \in 0..(WorldSize - 1) |-> IF iz <= 2 THEN 100 ELSE 0]

HeightMapOf(row) == [ix \in 0..(WorldSize - 1) |-> row]

InGrid(i) == i >= 0 /\ i < WorldSize

\* A height query that answers 1 outside the grid.
getHeightAtOne(hm, x, z) ==
    LET mapX == (x + (WorldSize * BlockSize) \div 2) \div BlockSize
        mapZ == (z + (WorldSize * BlockSize) \div 2) \div BlockSize
    IN  IF InGrid(mapX) /\ InGrid(mapZ) THEN hm[mapX][mapZ] ELSE 1

\* World.getHeightAt
getHeightAt(hm, x, z) ==
    LET mapX == (x + (WorldSize * BlockSize) \div 2) \div BlockSize
        mapZ == (z + (WorldSize * BlockSize) \div 2) \div BlockSize
    IN  IF InGrid(mapX) /\ InGrid(mapZ) THEN hm[mapX][mapZ] ELSE 0

\* An interpolation that takes the sample of the cell instead.
getInterpolatedHeightAtCell(hm, x, z) == getHeightAt(hm, x, z)

\* World.getInterpolatedHeightAt
getInterpolatedHeightAt(hm, x, z) ==
    LET worldX == x + (WorldSize * BlockSize) \div 2
        worldZ == z + (WorldSize * BlockSize) \div 2
        x1 == worldX \div BlockSize
        x2 == CeilDiv(worldX, BlockSize)
        z1 == worldZ \div BlockSize
        z2 == CeilDiv(worldZ, BlockSize)
    IN  IF x1 >= 0 /\ x2 < WorldSize /\ z1 >= 0 /\ z2 < WorldSize
        THEN LET xFrac == worldX - x1 * BlockSize
                 zFrac == worldZ - z1 * BlockSize
                 h1 == hm[x1][z1] * (BlockSize - xFrac) + hm[x2][z1] * xFrac
                 h2 == hm[x1][z2] * (BlockSize - xFrac) + hm[x2][z2] * xFrac
             IN  (h1 * (BlockSize - zFrac) + h2 * zFrac) \div (BlockSize * BlockSize)
        ELSE getHeightAt(hm, x, z)

\* ------------------------------------------------------------- ray casting
\* An axis-aligned box of a mesh; a plane is a box of no thickness.
Box(bx0, bx1, by0, by1, bz0, bz1) ==
    [x0 |-> bx0, x1 |-> bx1, y0 |-> by0, y1 |-> by1, z0 |-> bz0, z1 |-> bz1]

Far == 1000000
NoHit == -1

SlabEnter(o, d, lo, hi) ==
    IF d > 0 THEN lo - o
    ELSE IF d < 0 THEN o - hi
    ELSE IF o >= lo /\ o <= hi THEN -Far ELSE Far

SlabExit(o, d, lo, hi) ==
    IF d > 0 THEN hi - o
    ELSE IF d < 0 THEN o - lo
    ELSE IF o >= lo /\ o <= hi THEN Far ELSE -Far

\* Raycaster.intersectObject on one box mesh with a front-side material: the
\* ray parameter at which the ray enters the box through a face turned towards
\* it, NoHit when it misses or starts inside (back faces are culled).
RayBox(o, d, b) ==
    IF \/ (d.x = 0 /\ (o.x < b.x0 \/ o.x > b.x1))
       \/ (d.y = 0 /\ (o.y < b.y0 \/ o.y > b.y1))
       \/ (d.z = 0 /\ (o.z < b.z0 \/ o.z > b.z1))
    THEN NoHit
    ELSE LET tIn == Max2(SlabEnter(o.x, d.x, b.x0, b.x1),
                         Max2(SlabEnter(o.y, d.y, b.y0, b.y1),
                              SlabEnter(o.z, d.z, b.z0, b.z1)))
             tOut == Min2(SlabExit(o.x, d.x, b.x0, b.x1),
                          Min2(SlabExit(o.y, d.y, b.y0, b.y1),
                               SlabExit(o.z, d.z, b.z0, b.z1)))
         IN  IF tIn >= 0 /\ tIn <= tOut THEN tIn ELSE NoHit

\* intersects[0]: the nearest hit of the ray among the boxes, NoHit if none.
NearestHit(o, d, boxes) ==
    LET hits == {RayBox(o, d, b) : b \in boxes} \ {NoHit}
    IN  IF hits = {} THEN NoHit ELSE CHOOSE t \in hits : \A u \in hits : t <= u

Norm2(d) == d.x * d.x + d.y * d.y + d.z * d.z

\* intersects.length > 0 && intersects[0].distance < limit, the distance being
\* the ray parameter times the length of the direction.
HitWithin(t, d, limit) == t # NoHit /\ t * t * Norm2(d) < limit * limit

\* ------------------------------------------------------------ world objects
\* One tree, one building and one chest.  The building stands at fixed
\* block coordinates; where the tree and the chest stand is part of the state.
BuildingAt == [x |-> 0, z |-> -8 * BlockSize]
BuildingWidth == 8 * BlockSize
BuildingDepth == 8 * BlockSize
BuildingHeight == 5 * BlockSize

\* trunk BoxGeometry(0.5, 3, 0.5) and leaves BoxGeometry(2, 2, 2) of a tree group
TreeBoxes(hm, at) ==
    LET th == getHeightAt(hm, at.x, at.z)
    IN  { Box(at.x - 10, at.x + 10, th, th + 120, at.z - 10, at.z + 10),
          Box(at.x - 40, at.x + 40, th + 100, th + 180, at.z - 40, at.z + 40) }

\* the invisible collisionBox BoxGeometry(0.5, 0.5, 0.5) put at a chest
ChestCollisionBoxes(hm, at) ==
    LET th == getHeightAt(hm, at.x, at.z)
    IN  { Box(at.x - 10, at.x + 10, th, th + 20, at.z - 10, at.z + 10) }

\* base BoxGeometry(1, 0.5, 0.7) and lid BoxGeometry(1.1, 0.3, 0.8) of a chest group
ChestMeshes(hm, at) ==
    LET th == getHeightAt(hm, at.x, at.z)
    IN  { Box(at.x - 20, at.x + 20, th, th + 20, at.z - 14, at.z + 14),
          Box(at.x - 22, at.x + 22, th + 20, th + 32, at.z - 16, at.z + 16) }

\* walls BoxGeometry(width, height, depth) of the building group
WallBox(hm) ==
    LET bh == getHeightAt(hm, BuildingAt.x, BuildingAt.z)
    IN  Box(BuildingAt.x - BuildingWidth \div 2, BuildingAt.x + BuildingWidth \div 2,
            bh, bh + BuildingHeight,
            BuildingAt.z - BuildingDepth \div 2, BuildingAt.z + BuildingDepth \div 2)

\* door BoxGeometry(1.5, 3, 0.2) set against the wall of the entrance side
\* (0 = +Z, 1 = +X, 2 = -Z, 3 = -X)
DoorBox(hm, side) ==
    LET bh == getHeightAt(hm, BuildingAt.x, BuildingAt.z)
        hw == BuildingWidth \div 2
        hd == BuildingDepth \div 2
    IN  CASE side = 0 -> Box(BuildingAt.x - 30, BuildingAt.x + 30, bh, bh + 120,
                             BuildingAt.z + hd - 4, BuildingAt.z + hd + 4)
          [] side = 1 -> Box(BuildingAt.x + hw - 4, BuildingAt.x + hw + 4, bh, bh + 120,
                             BuildingAt.z - 30, BuildingAt.z + 30)
          [] side = 2 -> Box(BuildingAt.x - 30, BuildingAt.x + 30, bh, bh + 120,
                             BuildingAt.z - hd - 4, BuildingAt.z - hd + 4)
          [] side = 3 -> Box(BuildingAt.x - hw - 4, BuildingAt.x - hw + 4, bh, bh + 120,
                             BuildingAt.z - 30, BuildingAt.z + 30)

\* The meshes Player.createInteriorEnvironment builds that lie within reach of
\* the interior window of the model: floor and ceiling planes, front wall and
\* door.  Every mesh of the group ends up with userData.isCollidable = true.
InteriorBoxes ==
    { Box(-300, 300, 0, 0, -300, 300),
      Box(-300, 300, 200, 200, -300, 300),
      Box(-300, 300, 0, 200, 296, 304),
      Box(-40, 40, 0, 120, 298, 310) }

\* Top-level children of the scene, in the order they are added.
ExteriorChildren ==
    << "camera", "ambient", "sun", "ground", "grass", "sky", "tree", "building", "chest", "chestBox" >>
InteriorLights == << "interiorAmbient", "interiorPoint" >>
\* A light test that knows no light.
IsLightNever(o) == FALSE

\* object instanceof THREE.Light
IsLight(o) == o \in {"ambient", "sun", "interiorAmbient", "interiorPoint"}
\* obj.userData.isCollidable of a top-level child: the tree group and the
\* chest collision box carry it, the building group does not.
IsCollidableChild(o) == o \in {"tree", "chestBox"}

SeqToSet(q) == {q[i] : i \in 1..Len(q)}

ChildBoxes(hm, tr, ch, o) ==
    CASE o = "tree" -> TreeBoxes(hm, tr[o])
      [] o = "chestBox" -> ChestCollisionBoxes(hm, ch["chest"])
      [] OTHER -> {}

\* ------------------------------------------------------------------ state
VARIABLES
    pos,                  \* controls.getObject().position
    vy,                   \* velocity.y
    canJump,
    yaw,                  \* camera heading in quarter turns about +Y
    insideBuilding,       \* "undefined", "null" or the building entered
    lastOutsidePosition,  \* "undefined" or the position stored on entry
    outsideSceneObjects,  \* "undefined", "null" or the children set aside
    interiorGroup,        \* "undefined", "null" or "group"
    scene,                \* scene.children
    heightMap,            \* World.heightMap
    buildings,            \* World.buildings: the entrance side of each
    trees,                \* World.trees: where each stands
    chests,               \* ChestSystem.chests: where each stands
    ev                    \* the last call made and what it observed

vars == << pos, vy, canJump, yaw, insideBuilding, lastOutsidePosition,
           outsideSceneObjects, interiorGroup, scene, heightMap, buildings, trees, chests,
           ev >>

\* JavaScript's undefined and null, and references to objects
Undefined == [nil |-> "undefined"]
Null == [nil |-> "null"]
Ref(o) == [ref |-> o]
Truthy(v) == "nil" \notin DOMAIN v

\* The list every collision ray is cast against: the top-level children
\* flagged collidable, searched recursively, plus the meshes of the interior
\* group while insideBuilding and interiorGroup are set.
CollidableBoxes(sc, inside, group, hm, tr, ch) ==
    UNION {ChildBoxes(hm, tr, ch, o) : o \in {c \in SeqToSet(sc) : IsCollidableChild(c)}}
        \cup (IF Truthy(inside) /\ Truthy(group) THEN InteriorBoxes ELSE {})

\* PointerLockControls: the horizontal forward and right axes of the camera
Forward(q) ==
    CASE q = 0 -> Vec(0, 0, -1) [] q = 1 -> Vec(-1, 0, 0)
      [] q = 2 -> Vec(0, 0, 1)  [] q = 3 -> Vec(1, 0, 0)
Right(q) ==
    CASE q = 0 -> Vec(1, 0, 0)  [] q = 1 -> Vec(0, 0, -1)
      [] q = 2 -> Vec(-1, 0, 0) [] q = 3 -> Vec(0, 0, 1)

\* Player.collisionDirections
CollisionDirections ==
    << Vec(1, 0, 0), Vec(-1, 0, 0), Vec(0, 0, 1), Vec(0, 0, -1),
       Vec(1, 0, 1), Vec(-1, 0, 1), Vec(1, 0, -1), Vec(-1, 0, -1) >>

\* -(radius - distance) along one collision direction; the diagonals are the
\* vectors (+-0.7, 0, +-0.7) and their hit distance is t * 1.4142.
PushBack(t, d) ==
    IF Norm2(d) = 1 THEN Radius - t
    ELSE (7 * (Radius * 10000 - 14142 * t)) \div 100000

\* The sum of the push-back vectors of the eight horizontal rays, all cast
\* from the centre c.
SumPush(c, boxes) ==
    LET amount == [i \in 1..8 |->
                     LET d == CollisionDirections[i]
                         t == NearestHit(c, d, boxes)
                     IN  IF HitWithin(t, d, Radius) THEN PushBack(t, d) ELSE 0]
        D == CollisionDirections
    IN  [ x |-> 0 - (D[1].x * amount[1] + D[2].x * amount[2] + D[3].x * amount[3]
                     + D[4].x * amount[4] + D[5].x * amount[5] + D[6].x * amount[6]
                     + D[7].x * amount[7] + D[8].x * amount[8]),
          z |-> 0 - (D[1].z * amount[1] + D[2].z * amount[2] + D[3].z * amount[3]
                     + D[4].z * amount[4] + D[5].z * amount[5] + D[6].z * amount[6]
                     + D[7].z * amount[7] + D[8].z * amount[8]) ]

\* checkAllDirectionCollisions whose downward ray lifts the avatar and stops
\* its fall but leaves canJump as it was.
checkAllDirectionCollisionsNoJump(b, boxes) ==
    LET c == Vec(b.x, b.y - Height \div 2, b.z)
        up == NearestHit(c, Vec(0, 1, 0), boxes)
        ceiling == up # NoHit /\ up < Height + CeilingBuffer
        down == NearestHit(c, Vec(0, -1, 0), boxes)
        floor == down # NoHit /\ down < Height \div 2
        y1 == IF ceiling THEN b.y - CeilingPush ELSE b.y
        vy1 == IF ceiling /\ b.vy > 0 THEN 0 ELSE b.vy
        push == SumPush(c, boxes)
    IN  [ x |-> b.x + push.x,
          z |-> b.z + push.z,
          y |-> IF floor THEN y1 + (Height \div 2 - down) ELSE y1,
          vy |-> IF floor THEN 0 ELSE vy1,
          canJump |-> b.canJump ]

\* Player.checkAllDirectionCollisions with Player.checkVerticalCollisions.
\* b is the avatar: [x, y, z, vy, canJump].  Every ray starts at the centre
\* computed on entry.
checkAllDirectionCollisions(b, boxes) ==
    LET c == Vec(b.x, b.y - Height \div 2, b.z)
        up == NearestHit(c, Vec(0, 1, 0), boxes)
        ceiling == up # NoHit /\ up < Height + CeilingBuffer
        down == NearestHit(c, Vec(0, -1, 0), boxes)
        floor == down # NoHit /\ down < Height \div 2
        y1 == IF ceiling THEN b.y - CeilingPush ELSE b.y
        vy1 == IF ceiling /\ b.vy > 0 THEN 0 ELSE b.vy
        push == SumPush(c, boxes)
    IN  [ x |-> b.x + push.x,
          z |-> b.z + push.z,
          y |-> IF floor THEN y1 + (Height \div 2 - down) ELSE y1,
          vy |-> IF floor THEN 0 ELSE vy1,
          canJump |-> IF floor THEN TRUE ELSE b.canJump ]

\* The keys held: moveForward, moveBackward, moveLeft, moveRight.
Keys(f, k, l, r) == [forward |-> f, backward |-> k, left |-> l, right |-> r]
Num(flag) == IF flag THEN 1 ELSE 0
\* direction after normalize(): the signs of its x and z components
DirX(keys) == Num(keys.right) - Num(keys.left)
DirZ(keys) == Num(keys.forward) - Num(keys.backward)
\* |velocity.x * delta| = |velocity.z * delta| of one frame
StepLength(keys, dt) ==
    IF DirX(keys) # 0 /\ DirZ(keys) # 0 THEN (Speed * dt * 7071) \div 10000 ELSE Speed * dt

\* Player.checkObjectCollisions(oldPosition, newPosition): newPosition is
\* oldPosition moved by the velocity along the world axes.
checkObjectCollisions(b, keys, boxes) ==
    LET d == Vec(DirX(keys), 0, DirZ(keys))
        o == Vec(b.x, b.y - Height \div 2, b.z)
    IN  HitWithin(NearestHit(o, d, boxes), d, Radius)

\* controls.moveRight(velocity.x * delta); controls.moveForward(velocity.z * delta)
MoveControls(b, keys, dt, q) ==
    LET sx == DirX(keys) * StepLength(keys, dt)
        sz == DirZ(keys) * StepLength(keys, dt)
    IN  [b EXCEPT !.x = b.x + Right(q).x * sx + Forward(q).x * sz,
                  !.z = b.z + Right(q).z * sx + Forward(q).z * sz]

\* ------------------------------------------------------------ Player.update
\* update() inside a building without its floor test.
UpdateInteriorFloorless(b0, dt, keys, q, boxes) ==
    LET v1 == b0.vy - Gravity * dt
        b1 == [b0 EXCEPT !.vy = v1, !.y = b0.y + v1 * dt]
        blocked == checkObjectCollisions(b1, keys, boxes)
    IN  [ body |-> IF blocked THEN b1 ELSE MoveControls(b1, keys, dt, q),
          grounded |-> FALSE, blocked |-> blocked, veto |-> FALSE ]

\* The interior branch of update(): gravity, vertical move, floor at the
\* avatar's height, then the horizontal move unless an object blocks it.
UpdateInterior(b0, dt, keys, q, boxes) ==
    LET v1 == b0.vy - Gravity * dt
        y1 == b0.y + v1 * dt
        landed == y1 < Height
        b1 == [b0 EXCEPT !.vy = IF landed THEN 0 ELSE v1,
                         !.y = IF landed THEN Height ELSE y1,
                         !.canJump = IF landed THEN TRUE ELSE b0.canJump]
        blocked == checkObjectCollisions(b1, keys, boxes)
    IN  [ body |-> IF blocked THEN b1 ELSE MoveControls(b1, keys, dt, q),
          grounded |-> landed, blocked |-> blocked, veto |-> FALSE ]

\* update(), lines 116-130: the grounded test against the interpolated
\* terrain; gravity when airborne, else the snap onto the terrain.
Airborne(b0, terrainHeight) == b0.y - terrainHeight > Height

ApplyGravity(b0, dt, terrainHeight) ==
    IF Airborne(b0, terrainHeight)
    THEN [b0 EXCEPT !.vy = b0.vy - Gravity * dt, !.canJump = FALSE]
    ELSE [b0 EXCEPT !.vy = IF b0.vy < 0 THEN 0 ELSE b0.vy,
                    !.y = terrainHeight + Height,
                    !.canJump = TRUE]

\* update(), lines 172-181: the vertical move and the terrain clamp at the
\* position moved to.
ApplyVertical(b2, dt, finalTerrainHeight) ==
    LET y3 == b2.y + b2.vy * dt
    IN  IF y3 < finalTerrainHeight + Height
        THEN [b2 EXCEPT !.y = finalTerrainHeight + Height, !.vy = 0, !.canJump = TRUE]
        ELSE [b2 EXCEPT !.y = y3]

\* A slope test that lets every climb pass.
SlopeVetoNever(terrainHeight, newTerrainHeight, airborne) == FALSE

\* A slope test that does not ask whether the avatar is grounded.
SlopeVetoAirborne(terrainHeight, newTerrainHeight, airborne) ==
    newTerrainHeight - terrainHeight > SlopeLimit

\* update(), lines 165-169: the slope veto.
SlopeVeto(terrainHeight, newTerrainHeight, airborne) ==
    newTerrainHeight - terrainHeight > SlopeLimit /\ ~airborne

\* update(), lines 132-183, from the avatar b1 left by the grounded test:
\* horizontal move unless blocked, slope veto, vertical move and clamp.
MoveExterior(b1, airborne, terrainHeight, dt, keys, q, boxes, hm) ==
    LET blocked == checkObjectCollisions(b1, keys, boxes)
        b2 == MoveControls(b1, keys, dt, q)
        newTerrainHeight == getInterpolatedHeightAt(hm, b2.x, b2.z)
        veto == SlopeVeto(terrainHeight, newTerrainHeight, airborne)
    IN  [ body |-> IF blocked \/ veto THEN b1 ELSE ApplyVertical(b2, dt, newTerrainHeight),
          grounded |-> ~airborne, blocked |-> blocked, veto |-> ~blocked /\ veto ]

GroundExterior(b0, terrainHeight, dt, keys, q, boxes, hm) ==
    MoveExterior(ApplyGravity(b0, dt, terrainHeight), Airborne(b0, terrainHeight),
                 terrainHeight, dt, keys, q, boxes, hm)

\* The exterior part of update(), lines 115-183.
UpdateExterior(b0, dt, keys, q, boxes, hm) ==
    GroundExterior(b0, getInterpolatedHeightAt(hm, b0.x, b0.z), dt, keys, q, boxes, hm)

\* Player.update(delta)
update(b, dt, keys, q, boxes, hm, inside) ==
    CHOOSE u \in { IF Truthy(inside) THEN UpdateInterior(b0, dt, keys, q, boxes)
                   ELSE UpdateExterior(b0, dt, keys, q, boxes, hm) :
                   b0 \in {checkAllDirectionCollisions(b, boxes)} } : TRUE

\* ------------------------------------------------------------- transitions
Body == [x |-> pos.x, y |-> pos.y, z |-> pos.z, vy |-> vy, canJump |-> canJump]

Boxes == CollidableBoxes(scene, insideBuilding, interiorGroup, heightMap, trees, chests)

\* Interior spawn point and interior door point of Player.enterBuilding / interact
Spawn == Vec(0, Height, 200)
DoorPosition == Vec(0, 60, 280)

\* The window the model follows the avatar in, outside and inside.
InWindow(b, inside) ==
    IF Truthy(inside)
    THEN Abs(b.x) <= RoomReach * (BlockSize \div 2)
         /\ Abs(b.z - Spawn.z) <= RoomReach * BlockSize
    ELSE Abs(b.x) <= ArenaX * BlockSize /\ Abs(b.z) <= ArenaZ * BlockSize

\* The last call and what it did: for a frame, whether update() found the
\* avatar grounded and the avatar as update() left it; for the other calls the
\* avatar as the call found it.  arg is the camera pitch of an interaction
\* that entered a building.
Event(op, result, grounded, mid, arg) ==
    [op |-> op, result |-> result, grounded |-> grounded, mid |-> mid, arg |-> arg]

Deltas == 1..MaxDelta

\* The player as Game's constructor leaves it: on the terrain at the origin.
Start ==
    /\ pos = Vec(0, getInterpolatedHeightAt(heightMap, 0, 0) + Height, 0)
    /\ vy = 0
    /\ canJump = TRUE
    /\ yaw = 0
    /\ insideBuilding = Undefined
    /\ lastOutsidePosition = Undefined
    /\ outsideSceneObjects = Undefined
    /\ interiorGroup = Undefined
    /\ ev = Event("init", "none", FALSE, [x |-> 0, y |-> 0, z |-> 0, vy |-> 0, canJump |-> TRUE], 0)

\* The world as World's and ChestSystem's constructors leave it, with the
\* given terrain, the tree and the chest at the given block coordinates and
\* the entrance of the building on one of the given sides.
Generated(row, treeAt, chestAt, sides) ==
    /\ heightMap = HeightMapOf(row)
    /\ buildings \in [{"building"} -> sides]
    /\ trees = [t \in {"tree"} |-> [x |-> treeAt[1] * BlockSize, z |-> treeAt[2] * BlockSize]]
    /\ chests = [c \in {"chest"} |-> [x |-> chestAt[1] * BlockSize, z |-> chestAt[2] * BlockSize]]
    /\ scene = ExteriorChildren

\* A world whose tree and chest stand away from the window walked in.
Init == Generated(Rolling, << -3, 0 >>, << -2, 1 >>, 0..3) /\ Start

\* The end of a frame: the avatar b is what the frame leaves, u what update()
\* reported.
endFrame(u, b) ==
    /\ InWindow(b, insideBuilding)
    /\ b.vy >= -MaxFall
    /\ pos' = Vec(b.x, b.y, b.z)
    /\ vy' = b.vy
    /\ canJump' = b.canJump
    /\ ev' = Event("tick",
                   IF u.blocked THEN "blocked" ELSE IF u.veto THEN "veto" ELSE "moved",
                   u.grounded, u.body, 0)
    /\ UNCHANGED << yaw, insideBuilding, lastOutsidePosition, outsideSceneObjects,
                    interiorGroup, scene, heightMap, buildings, trees, chests >>

afterUpdate(u, boxes) ==
    \E b \in {checkAllDirectionCollisions(u.body, boxes)} : endFrame(u, b)

\* Game.animate: player.update(delta), then player.checkAllDirectionCollisions()
animate(dt, keys) ==
    \E boxes \in {Boxes} :
        \E u \in {update(Body, dt, keys, yaw, boxes, heightMap, insideBuilding)} :
            afterUpdate(u, boxes)

\* Player.jump
jump ==
    /\ IF canJump
       THEN vy' = JumpHeight /\ canJump' = FALSE
       ELSE UNCHANGED << vy, canJump >>
    /\ ev' = Event("jump", IF canJump THEN "jumped" ELSE "ignored", FALSE, Body, 0)
    /\ UNCHANGED << pos, yaw, insideBuilding, lastOutsidePosition, outsideSceneObjects,
                    interiorGroup, scene, heightMap, buildings, trees, chests >>

\* PointerLockControls mouse look, by quarter turns
look(q) ==
    /\ q # yaw
    /\ yaw' = q
    /\ UNCHANGED << ev, pos, vy, canJump, insideBuilding, lastOutsidePosition,
                    outsideSceneObjects, interiorGroup, scene, heightMap, buildings, trees, chests >>

\* ------------------------------------------------ entering and leaving

\* Meshes of the building group that the interaction ray can meet.
BuildingMeshes(hm, side) == {WallBox(hm), DoorBox(hm, side)}

\* camera.getWorldDirection for a yaw of q quarter turns; pitch is 0 (level)
\* or -1 (45 degrees down).
CameraDirection(q, pitch) == Vec(Forward(q).x, pitch, Forward(q).z)

Pitches == {0, -1}

\* Player.interact, lines 378-413: the nearest chest mesh is within reach.
ChestHit(eye, d, hm, ch) ==
    HitWithin(NearestHit(eye, d, ChestMeshes(hm, ch["chest"])), d, InteractionDistance)

\* A door search that reaches twice as far.
BuildingHitFar(eye, d, sc, hm, bs) ==
    /\ "building" \in SeqToSet(sc)
    /\ \E m \in BuildingMeshes(hm, bs["building"]) :
           HitWithin(RayBox(eye, d, m), d, 2 * InteractionDistance)

\* Player.interact, lines 442-463: some mesh of a building in the scene is
\* met by the ray within reach, be it the door or any other part.
BuildingHit(eye, d, sc, hm, bs) ==
    /\ "building" \in SeqToSet(sc)
    /\ \E m \in BuildingMeshes(hm, bs["building"]) :
           HitWithin(RayBox(eye, d, m), d, InteractionDistance)

Dist2(a, b) ==
    (a.x - b.x) * (a.x - b.x) + (a.y - b.y) * (a.y - b.y) + (a.z - b.z) * (a.z - b.z)

\* An exit test that reaches twice as far.
NearInteriorDoorWide(p) == Dist2(p, DoorPosition) < 4 * InteractionDistance * InteractionDistance

\* playerPos.distanceTo(doorPosition) < 3
NearInteriorDoor(p) == Dist2(p, DoorPosition) < InteractionDistance * InteractionDistance

\* A clearing that stores the scene's objects and leaves them in the scene.
clearSceneKeepingObjects(sc) ==
    [ kept |-> SelectSeq(sc, LAMBDA o : o # "camera"),
      scene |-> sc \o InteriorLights ]

\* Player.clearSceneForInterior: every child but the camera is set aside,
\* two interior lights are added.
clearSceneForInterior(sc) ==
    [ kept |-> SelectSeq(sc, LAMBDA o : o # "camera"),
      scene |-> SelectSeq(sc, LAMBDA o : o = "camera") \o InteriorLights ]

\* An entry that does not store where the avatar stood outside.
enterBuildingNoReturn(building) ==
    LET cleared == clearSceneForInterior(scene)
    IN  /\ lastOutsidePosition' = lastOutsidePosition
        /\ insideBuilding' = Ref(building)
        /\ outsideSceneObjects' = Ref(cleared.kept)
        /\ interiorGroup' = Ref("interiorGroup")
        /\ scene' = cleared.scene \o << "interiorGroup" >>
        /\ pos' = Spawn
        /\ vy' = 0
        /\ UNCHANGED << canJump, yaw, heightMap, buildings, trees, chests >>

\* Player.enterBuilding
enterBuilding(building) ==
    LET cleared == clearSceneForInterior(scene)
    IN  /\ lastOutsidePosition' = pos
        /\ insideBuilding' = Ref(building)
        /\ outsideSceneObjects' = Ref(cleared.kept)
        /\ interiorGroup' = Ref("interiorGroup")
        /\ scene' = cleared.scene \o << "interiorGroup" >>
        /\ pos' = Spawn
        /\ vy' = 0
        /\ UNCHANGED << canJump, yaw, heightMap, buildings, trees, chests >>

\* An exit displacement that is turned a quarter about the entrance normal.
ExitOffsetAcross(side) ==
    CASE side = 0 -> Vec(MoveDistance, 0, 0)
      [] side = 1 -> Vec(0, 0, -MoveDistance)
      [] side = 2 -> Vec(-MoveDistance, 0, 0)
      [] side = 3 -> Vec(0, 0, MoveDistance)

\* Player.exitBuilding, lines 863-881: moveDistance along the normal of the
\* entrance side
ExitOffset(side) ==
    CASE side = 0 -> Vec(0, 0, MoveDistance)
      [] side = 1 -> Vec(MoveDistance, 0, 0)
      [] side = 2 -> Vec(0, 0, -MoveDistance)
      [] side = 3 -> Vec(-MoveDistance, 0, 0)

\* Player.exitBuilding
exitBuilding ==
    IF ~Truthy(insideBuilding) \/ ~Truthy(lastOutsidePosition)
    THEN UNCHANGED << pos, vy, canJump, yaw, insideBuilding, lastOutsidePosition,
                      outsideSceneObjects, interiorGroup, scene, heightMap, buildings, trees, chests >>
    ELSE LET without == IF Truthy(interiorGroup)
                        THEN SelectSeq(scene, LAMBDA o : o # "interiorGroup")
                        ELSE scene
             unlit == SelectSeq(without, LAMBDA o : ~IsLight(o))
             off == ExitOffset(buildings[insideBuilding.ref])
         IN  /\ interiorGroup' = IF Truthy(interiorGroup) THEN Null ELSE interiorGroup
             /\ scene' = IF Truthy(outsideSceneObjects) THEN unlit \o outsideSceneObjects.ref
                         ELSE unlit
             /\ outsideSceneObjects' = IF Truthy(outsideSceneObjects) THEN Null
                                       ELSE outsideSceneObjects
             /\ pos' = Vec(lastOutsidePosition.x + off.x, lastOutsidePosition.y,
                           lastOutsidePosition.z + off.z)
             /\ insideBuilding' = Null
             /\ UNCHANGED << vy, canJump, yaw, lastOutsidePosition, heightMap, buildings,
                             trees, chests >>

Unmoved ==
    UNCHANGED << pos, vy, canJump, yaw, insideBuilding, lastOutsidePosition,
                 outsideSceneObjects, interiorGroup, scene, heightMap, buildings, trees, chests >>

\* An interact() that looks for a door to enter before it asks whether the
\* player is inside.
interactNested(pitch) ==
    /\ IF Truthy(insideBuilding) /\ NearInteriorDoor(pos)
       THEN exitBuilding /\ ev' = Event("interact", "exit", FALSE, Body, 0)
       ELSE IF ChestHit(pos, CameraDirection(yaw, pitch), heightMap, chests)
            THEN Unmoved /\ ev' = Event("interact", "chest", FALSE, Body, 0)
            ELSE IF \/ Truthy(insideBuilding)
                    \/ BuildingHit(pos, CameraDirection(yaw, pitch), scene, heightMap, buildings)
                 THEN enterBuilding("building")
                      /\ ev' = Event("interact", "enter", FALSE, Body, pitch)
                 ELSE Unmoved /\ ev' = Event("interact", "none", FALSE, Body, 0)

\* Player.interact with the camera pitched as given
interact(pitch) ==
    IF Truthy(insideBuilding)
    THEN IF NearInteriorDoor(pos)
         THEN exitBuilding /\ ev' = Event("interact", "exit", FALSE, Body, 0)
         ELSE Unmoved /\ ev' = Event("interact", "hint", FALSE, Body, 0)
    ELSE IF ChestHit(pos, CameraDirection(yaw, pitch), heightMap, chests)
         THEN Unmoved /\ ev' = Event("interact", "chest", FALSE, Body, 0)
         ELSE IF BuildingHit(pos, CameraDirection(yaw, pitch), scene, heightMap, buildings)
              THEN enterBuilding("building")
                   /\ ev' = Event("interact", "enter", FALSE, Body, pitch)
              ELSE Unmoved /\ ev' = Event("interact", "none", FALSE, Body, 0)

\* The headings the camera is turned to: towards the building, as at the
\* start, and a quarter turn to the left.
Yaws == {0, 1}

\* Walking forwards and backwards along the heading.
WalkKeys ==
    { Keys(FALSE, FALSE, FALSE, FALSE), Keys(TRUE, FALSE, FALSE, FALSE),
      Keys(FALSE, TRUE, FALSE, FALSE) }

Next ==
    \/ \E dt \in Deltas, keys \in WalkKeys : animate(dt, keys)
    \/ \E q \in Yaws : look(q)
    \/ \E pitch \in Pitches : interact(pitch)

Spec == Init /\ [][Next]_vars

\* Jumping while walking along z.
JumpKeys == {Keys(FALSE, FALSE, FALSE, FALSE), Keys(TRUE, FALSE, FALSE, FALSE)}

NextJump ==
    \/ \E dt \in Deltas, keys \in JumpKeys : animate(dt, keys)
    \/ jump

InitJump == Generated(Rolling, << -3, 0 >>, << -2, 1 >>, {0}) /\ Start

SpecJump == InitJump /\ [][NextJump]_vars

\* Walking between the building and a tree that stands at the foot of a
\* steep bank, turning about, and going in and out of the building.
CollideYaws == {0, 2}

InitCollide == Generated(Bank, << 0, 1 >>, << -2, 1 >>, {0}) /\ Start

NextCollide ==
    \/ \E dt \in Deltas, keys \in WalkKeys : animate(dt, keys)
    \/ \E q \in CollideYaws : look(q)
    \/ \E pitch \in Pitches : interact(pitch)

SpecCollide == InitCollide /\ [][NextCollide]_vars

\* Walking and jumping at the foot of a steep rise, and up it.
InitLeap == Generated(Cliff, << -3, 0 >>, << -2, 1 >>, {0}) /\ Start

NextLeap ==
    \/ \E dt \in Deltas, keys \in JumpKeys : animate(dt, keys)
    \/ jump

SpecLeap == InitLeap /\ [][NextLeap]_vars

\* Walking off a ledge towards a tree that stands at its foot, one block ahead.
InitPerch == Generated(Ledge, << 0, -1 >>, << -2, 1 >>, {0}) /\ Start

Tick == \E dt \in Deltas, keys \in JumpKeys : animate(dt, keys)

NextPerch ==
    \/ Tick
    \/ jump

SpecPerch == InitPerch /\ [][NextPerch]_vars

\* requestAnimationFrame keeps the frames coming.
SpecPerchFair == SpecPerch /\ WF_vars(Tick)

\* A slow machine: frames that take up to MaxFrame time steps, walked and
\* jumped through along z.
Frames == 1..MaxFrame

\* main.js animate, line 269: const delta = this.clock.getDelta(), the time
\* the frame took, handed on as it is.
getDelta(frame) == frame

\* Game.animate for a frame that took the given time.
animateFrame(frame, keys) == animate(getDelta(frame), keys)

NextFrames ==
    \/ \E frame \in Frames, keys \in JumpKeys : animateFrame(frame, keys)
    \/ jump

SpecFrames == InitJump /\ [][NextFrames]_vars

\* ---------------------------------------------------------- height queries
\* Height maps of World.generateTerrain for some noises: level ground with one
\* hill at a corner, on an edge or inside, and level ground raised all over.
Hill(i, j) ==
    [ix \in 0..(WorldSize - 1) |-> [iz \in 0..(WorldSize - 1) |->
        IF ix = i /\ iz = j THEN NoiseLevel ELSE 0]]

Raised == [ix \in 0..(WorldSize - 1) |-> [iz \in 0..(WorldSize - 1) |-> NoiseLevel]]

HillCells == {0, WorldSize \div 2 - 1, WorldSize - 1}

NoiseMaps == {Hill(i, j) : i \in HillCells, j \in HillCells} \cup {Raised}

Queries == {q * QueryStep : q \in (-QueryReach)..QueryReach}

\* The world and the player as the constructors leave them on a given terrain.
Constructed(hm) ==
    /\ heightMap = hm
    /\ buildings = [b \in {"building"} |-> 0]
    /\ trees = [t \in {"tree"} |-> [x |-> -3 * BlockSize, z |-> 0]]
    /\ chests = [c \in {"chest"} |-> [x |-> -2 * BlockSize, z |-> BlockSize]]
    /\ scene = ExteriorChildren
    /\ Start

\* World.js generateTerrain, line 55: new SimplexNoise() draws its permutation
\* table from Math.random, so each construction has a noise of its own.
InitTerrain == \E hm \in NoiseMaps : Constructed(hm)

\* world.getHeightAt(x, z): ev keeps the point asked for and, as its y, the
\* height returned.
heightQuery(x, z) ==
    /\ ev' = Event("getHeightAt", "height", FALSE, Vec(x, getHeightAt(heightMap, x, z), z), 0)
    /\ UNCHANGED << pos, vy, canJump, yaw, insideBuilding, lastOutsidePosition,
                    outsideSceneObjects, interiorGroup, scene, heightMap, buildings,
                    trees, chests >>

\* world.getInterpolatedHeightAt(x, z)
interpolatedQuery(x, z) ==
    /\ ev' = Event("getInterpolatedHeightAt", "height", FALSE,
                   Vec(x, getInterpolatedHeightAt(heightMap, x, z), z), 0)
    /\ UNCHANGED << pos, vy, canJump, yaw, insideBuilding, lastOutsidePosition,
                    outsideSceneObjects, interiorGroup, scene, heightMap, buildings,
                    trees, chests >>

\* new Game(): the world is constructed again, with the same seed string.
construct ==
    /\ \E hm \in NoiseMaps :
           /\ heightMap' = hm
           /\ pos' = Vec(0, getInterpolatedHeightAt(hm, 0, 0) + Height, 0)
    /\ vy' = 0
    /\ canJump' = TRUE
    /\ yaw' = 0
    /\ insideBuilding' = Undefined
    /\ lastOutsidePosition' = Undefined
    /\ outsideSceneObjects' = Undefined
    /\ interiorGroup' = Undefined
    /\ scene' = ExteriorChildren
    /\ ev' = Event("construct", "none", FALSE, Vec(0, 0, 0), 0)
    /\ UNCHANGED << buildings, trees, chests >>

NextTerrain ==
    \/ \E x \in Queries, z \in Queries : heightQuery(x, z)
    \/ \E x \in Queries, z \in Queries : interpolatedQuery(x, z)
    \/ construct

SpecTerrain == InitTerrain /\ [][NextTerrain]_vars

\* -------------------------------------------------------------- the village
\* World.ts: villageRadius (30 blocks of a world of 200, here 2 of WorldSize)
\* and the width of the transition ring around it.
VillageRadius == 2 * BlockSize
TransitionWidth == 20 * BlockSize
\* The three octaves of noise of World.ts generateTerrain: 6 + 3 + 1.5 units.
NoiseAmplitude == 420

\* Math.sqrt, rounded down to the length unit
ISqrt(n) == CHOOSE r \in 0..(2 * WorldSize * BlockSize) : r * r <= n /\ (r + 1) * (r + 1) > n

\* World.ts generateTerrain, lines 109-143: the sample of grid point (i, j)
\* for a given noise value; 0 within the village radius of the centre, scaled
\* down in the ring around it.
VillageSample(i, j, noise) ==
    LET x == i * BlockSize - (WorldSize * BlockSize) \div 2
        z == j * BlockSize - (WorldSize * BlockSize) \div 2
        d2 == x * x + z * z
    IN  IF d2 < VillageRadius * VillageRadius THEN 0
        ELSE IF d2 < (VillageRadius + TransitionWidth) * (VillageRadius + TransitionWidth)
             THEN (noise * (ISqrt(d2) - VillageRadius)) \div TransitionWidth
             ELSE noise

generateTerrain(noise) ==
    [i \in 0..(WorldSize - 1) |-> [j \in 0..(WorldSize - 1) |-> VillageSample(i, j, noise[i][j])]]

\* Noises: high everywhere, low everywhere, and high and low in turn.
VillageNoises ==
    { [i \in 0..(WorldSize - 1) |-> [j \in 0..(WorldSize - 1) |-> NoiseAmplitude]],
      [i \in 0..(WorldSize - 1) |-> [j \in 0..(WorldSize - 1) |-> -NoiseAmplitude]],
      [i \in 0..(WorldSize - 1) |-> [j \in 0..(WorldSize - 1) |->
          IF (i + j) % 2 = 0 THEN NoiseAmplitude ELSE -NoiseAmplitude]] }

InitVillage == \E noise \in VillageNoises : Constructed(generateTerrain(noise))

NextVillage == \E x \in Queries, z \in Queries : heightQuery(x, z)

SpecVillage == InitVillage /\ [][NextVillage]_vars

\* ------------------------------------------------------ building footprints
\* Entries of World.buildings as World.ts generateVillage registers them:
\* position (centre of the base), width, depth and height.
Hut == [position |-> Vec(0, BlockSize \div 2, 0),
        width |-> 2 * BlockSize, depth |-> BlockSize, height |-> 3 * BlockSize]
Hall == [position |-> Vec(2 * BlockSize, 0, -2 * BlockSize),
         width |-> 3 * BlockSize, depth |-> 2 * BlockSize, height |-> BlockSize]

\* The registry: empty, one building, two buildings in either order.
Registries == { << >>, << Hut >>, << Hall >>, << Hut, Hall >>, << Hall, Hut >> }

\* Heights asked about: below, on and above the bases and the tops.
QueryLevels ==
    { -1, 0, BlockSize \div 2 - 1, BlockSize, BlockSize + 1,
      3 * BlockSize + BlockSize \div 2, 3 * BlockSize + BlockSize \div 2 + 1 }

\* Points asked about: around the two buildings, past their walls.
FootprintX == {q * QueryStep : q \in -3..QueryReach}
FootprintZ == {q * QueryStep : q \in (-QueryReach)..2}

\* A bounds test that leaves the height out.
WithinBoundsFlat(building, position) ==
    /\ position.x >= building.position.x - building.width \div 2
    /\ position.x <= building.position.x + building.width \div 2
    /\ position.z >= building.position.z - building.depth \div 2
    /\ position.z <= building.position.z + building.depth \div 2

\* World.ts isInsideBuilding, lines 749-756: the bounds test of one building
WithinBounds(building, position) ==
    /\ position.x >= building.position.x - building.width \div 2
    /\ position.x <= building.position.x + building.width \div 2
    /\ position.z >= building.position.z - building.depth \div 2
    /\ position.z <= building.position.z + building.depth \div 2
    /\ position.y >= building.position.y
    /\ position.y <= building.position.y + building.height

\* World.ts isInsideBuilding: the loop over this.buildings, returning true at
\* the first building whose bounds hold the position and false after the last.
RECURSIVE isInsideBuildingFrom(_, _, _)
isInsideBuildingFrom(registry, position, i) ==
    IF i > Len(registry) THEN FALSE
    ELSE IF WithinBounds(registry[i], position) THEN TRUE
    ELSE isInsideBuildingFrom(registry, position, i + 1)

isInsideBuilding(registry, position) == isInsideBuildingFrom(registry, position, 1)

\* A village of World.ts with the given registry.
InitFootprint ==
    /\ buildings \in Registries
    /\ heightMap = HeightMapOf(Rolling)
    /\ trees = [t \in {"tree"} |-> [x |-> -3 * BlockSize, z |-> 0]]
    /\ chests = [c \in {"chest"} |-> [x |-> -2 * BlockSize, z |-> BlockSize]]
    /\ scene = ExteriorChildren
    /\ Start

\* world.isInsideBuilding(position): ev keeps the position asked about and
\* the answer.
insideQuery(position) ==
    /\ ev' = Event("isInsideBuilding",
                   IF isInsideBuilding(buildings, position) THEN "inside" ELSE "outside",
                   FALSE, position, 0)
    /\ UNCHANGED << pos, vy, canJump, yaw, insideBuilding, lastOutsidePosition,
                    outsideSceneObjects, interiorGroup, scene, heightMap, buildings,
                    trees, chests >>

NextFootprint ==
    \E x \in FootprintX, y \in QueryLevels, z \in FootprintZ : insideQuery(Vec(x, y, z))

SpecFootprint == InitFootprint /\ [][NextFootprint]_vars

\* ---------------------------------------------------------------- claims

\* A step of interact(): it records itself and leaves the heading alone.
InteractStep == ev'.op = "interact" /\ yaw' = yaw

\* The place the avatar stood at when the last call began.
Before == Vec(ev.mid.x, ev.mid.y, ev.mid.z)

\* Outward normal of the wall the entrance is on (0 = +Z, 1 = +X, 2 = -Z, 3 = -X).
EntranceNormal(side) ==
    CASE side = 0 -> Vec(0, 0, 1) [] side = 1 -> Vec(1, 0, 0)
      [] side = 2 -> Vec(0, 0, -1) [] side = 3 -> Vec(-1, 0, 0)

\* C1: at every tick boundary and after every interact the interior session
\* (source building, return position, interior collidables) is non-null
\* exactly when the avatar is inside a building, so it is absent before the
\* first entry and again after every exit.
C1_SessionIffInterior ==
    /\ Truthy(insideBuilding) <=> Truthy(lastOutsidePosition)
    /\ Truthy(insideBuilding) <=> Truthy(interiorGroup)

\* C2: when the avatar has entered a building from the place P and the next
\* interact leaves it again, the avatar stands at P moved by at most the
\* clearance distance along the outward normal of the entrance side, at the
\* height of P, and not at the interior spawn point.
C2_RoundTrip ==
    [][ ev.result = "enter" /\ InteractStep /\ ev'.result = "exit"
        => /\ \E k \in 1..MoveDistance :
                  pos' = Vec(Before.x + k * EntranceNormal(buildings["building"]).x,
                             Before.y,
                             Before.z + k * EntranceNormal(buildings["building"]).z)
           /\ pos' # Spawn ]_vars

C2_Witness ==
    /\ ev.op = "interact" /\ ev.result = "exit"
    /\ Vec(ev.mid.x, ev.mid.y, ev.mid.z) = Spawn
    /\ ~Truthy(insideBuilding)
    /\ Dist2(pos, lastOutsidePosition) = MoveDistance * MoveDistance

\* C3: while the avatar is inside a building no interact starts an entry: it
\* only leaves or shows the hint, and neither the stored return position nor,
\* short of leaving, the stored exterior objects are written.
C3_NoNestedInteriors ==
    [][ Truthy(insideBuilding) /\ InteractStep
        => /\ ev'.result \in {"exit", "hint"}
           /\ lastOutsidePosition' = lastOutsidePosition
           /\ ev'.result = "hint" => outsideSceneObjects' = outsideSceneObjects ]_vars

C3_Witness ==
    /\ ev.op = "interact" /\ ev.result = "hint"
    /\ Truthy(insideBuilding) /\ Truthy(outsideSceneObjects)
    /\ "interiorGroup" \in SeqToSet(scene)

\* C4: after a frame outside that began with the avatar grounded, and with no
\* jump, the avatar's height is the interpolated terrain height at its place
\* plus the eye height.
C4_GroundedOnTerrain ==
    ev.op = "tick" /\ ev.grounded /\ ~Truthy(insideBuilding)
    => pos.y = getInterpolatedHeightAt(heightMap, pos.x, pos.z) + Height

\* Forward is the only key held, no key is held.
ForwardOnly == Keys(TRUE, FALSE, FALSE, FALSE)
NoKey == Keys(FALSE, FALSE, FALSE, FALSE)

\* The avatar as a frame of length dt with the given keys leaves the avatar b.
FrameEndFrom(b, dt, keys) ==
    checkAllDirectionCollisions(
        update(b, dt, keys, yaw, Boxes, heightMap, insideBuilding).body, Boxes)
FrameEnd(dt, keys) == FrameEndFrom(Body, dt, keys)

\* The terrain under the avatar b, and whether b is no lower than the ground
\* beneath it: the terrain outside, the floor at 0 inside.
TerrainUnder(b) == getInterpolatedHeightAt(heightMap, b.x, b.z)
NotBelowGround(b) == b.y >= IF Truthy(insideBuilding) THEN 0 ELSE TerrainUnder(b)

\* Vertical velocities a frame is tried with: falling, and falling fast
\* enough to pass the ground within one frame.
FallSpeeds == {-MaxFall, -4 * MaxFall}

\* C5: after every frame the avatar is no lower than the ground beneath it,
\* the interpolated terrain height outside and the floor at 0 inside, and
\* that is so whatever the length of the frame and the velocity it begins with.
C5_NotBelowGround ==
    /\ ev.op = "tick" => NotBelowGround(Body)
    /\ \A dt \in Deltas, v \in FallSpeeds, keys \in {NoKey, ForwardOnly} :
           NotBelowGround(FrameEndFrom([Body EXCEPT !.vy = v], dt, keys))

C5_Witness ==
    /\ ev.op = "tick" /\ ev.grounded
    /\ Truthy(insideBuilding)
    /\ pos.y = Height /\ vy = 0

\* Whether the avatar b is grounded with the terrain a forward step of a frame
\* of length dt away more than the slope limit higher than the terrain under it.
SteepAhead(b, dt) ==
    /\ b.y - TerrainUnder(b) <= Height
    /\ TerrainUnder(MoveControls(b, ForwardOnly, dt, yaw)) - TerrainUnder(b) > SlopeLimit

\* C6 as stated: a grounded avatar whose forward step would raise the terrain
\* under it by more than the slope limit ends the frame, forward being the
\* only key held, at the x and z it began the frame with.
C6_NoDisplacement ==
    ~Truthy(insideBuilding)
    => \A dt \in Deltas :
           SteepAhead(Body, dt)
           => /\ FrameEnd(dt, ForwardOnly).x = pos.x
              /\ FrameEnd(dt, ForwardOnly).z = pos.z

\* The avatar after the collision push-back a frame begins with.
PushedBack == checkAllDirectionCollisions(Body, Boxes)

\* C6: a grounded avatar whose forward step, taken from where the push-back at
\* the start of the frame puts it, would raise the terrain under it by more
\* than the slope limit ends the frame, forward being the only key held, at
\* the x and z that push-back put it at.
C6_SlopeVeto ==
    ~Truthy(insideBuilding)
    => \A dt \in Deltas :
           SteepAhead(PushedBack, dt)
           => /\ FrameEnd(dt, ForwardOnly).x = PushedBack.x
              /\ FrameEnd(dt, ForwardOnly).z = PushedBack.z

C6_Witness ==
    /\ ev.op = "tick" /\ ev.result = "veto"
    /\ ~Truthy(insideBuilding)
    /\ \E dt \in Deltas : SteepAhead(PushedBack, dt)

\* Whether the centre of the avatar b is, at its own height, inside the box or
\* closer than the radius to one of its side faces.
TooClose(b, box) ==
    /\ b.y - Height \div 2 >= box.y0 /\ b.y - Height \div 2 <= box.y1
    /\ \/ b.x > box.x0 - Radius /\ b.x < box.x1 + Radius /\ b.z >= box.z0 /\ b.z <= box.z1
       \/ b.z > box.z0 - Radius /\ b.z < box.z1 + Radius /\ b.x >= box.x0 /\ b.x <= box.x1

\* C7: at no frame boundary is the centre of an avatar that walks about
\* collidable boxes closer than its radius to a face of one, or inside one.
C7_KeepsClear ==
    ev.op = "tick" /\ ~Truthy(insideBuilding) => \A box \in Boxes : ~TooClose(Body, box)

\* C8: a jump() takes effect only when the avatar is not still rising from an
\* earlier jump.
C8_NoDoubleJump ==
    ev.op = "jump" /\ ev.result = "jumped" => ev.mid.vy <= 0

\* The interaction ray of the call that entered meets the box within reach.
RayMeets(box) ==
    HitWithin(RayBox(pos, CameraDirection(yaw, ev'.arg), box),
              CameraDirection(yaw, ev'.arg), InteractionDistance)

\* What an interact that does not enter leaves alone.
StaysOutside ==
    /\ insideBuilding' = insideBuilding
    /\ pos' = pos
    /\ scene' = scene
    /\ interiorGroup' = interiorGroup

C10_ExitsNearDoorOnly ==
    /\ [][ Truthy(insideBuilding) /\ ~Truthy(insideBuilding')
           => InteractStep /\ ev'.result = "exit"
              /\ Dist2(pos, DoorPosition) < InteractionDistance * InteractionDistance ]_vars
    /\ [][ Truthy(insideBuilding) /\ InteractStep
           /\ Dist2(pos, DoorPosition) >= InteractionDistance * InteractionDistance
           => /\ ev'.result = "hint"
              /\ UNCHANGED << pos, vy, canJump, insideBuilding, lastOutsidePosition,
                              outsideSceneObjects, interiorGroup, scene >> ]_vars

C10_Witness ==
    /\ ev.op = "interact" /\ ev.result = "exit"
    /\ Vec(ev.mid.x, ev.mid.y, ev.mid.z) # Spawn
    /\ insideBuilding = Null /\ interiorGroup = Null


\* C11: outside, and so after every entry followed by an exit, the scene holds
\* exactly the objects it held before the entry, each once, and neither the
\* interior group nor an interior light nor an interior collidable is active.
C11_ExteriorRestored ==
    ~Truthy(insideBuilding)
    => /\ SeqToSet(scene) = SeqToSet(ExteriorChildren)
       /\ Len(scene) = Len(ExteriorChildren)
       /\ Boxes \cap InteriorBoxes = {}

C11_Witness ==
    /\ ev.op = "interact" /\ ev.result = "exit"
    /\ insideBuilding = Null
    /\ Truthy(lastOutsidePosition)
    /\ scene = << "camera" >> \o SelectSeq(ExteriorChildren, LAMBDA o : o # "camera")


\* Squared distance of the place p from the centre of the building, from its
\* footprint, and whether p lies within the footprint.
CentreDist2(p) ==
    (p.x - BuildingAt.x) * (p.x - BuildingAt.x) + (p.z - BuildingAt.z) * (p.z - BuildingAt.z)
Beyond(d, half) == Max2(Abs(d) - half, 0)
FootprintDist2(p) ==
    Beyond(p.x - BuildingAt.x, BuildingWidth \div 2) * Beyond(p.x - BuildingAt.x, BuildingWidth \div 2)
    + Beyond(p.z - BuildingAt.z, BuildingDepth \div 2) * Beyond(p.z - BuildingAt.z, BuildingDepth \div 2)
InFootprint(p) ==
    /\ Abs(p.x - BuildingAt.x) < BuildingWidth \div 2
    /\ Abs(p.z - BuildingAt.z) < BuildingDepth \div 2

\* C12: an exit puts the avatar at the return position moved by the clearance
\* distance along the outward normal of the entrance side, and there it is
\* farther from the building than the return position, be it from its
\* footprint or from its centre, and not within the footprint.
C12_ExitsOutward ==
    [][ InteractStep /\ ev'.result = "exit"
        => /\ pos' = Vec(lastOutsidePosition.x
                           + MoveDistance * EntranceNormal(buildings["building"]).x,
                         lastOutsidePosition.y,
                         lastOutsidePosition.z
                           + MoveDistance * EntranceNormal(buildings["building"]).z)
           /\ \/ FootprintDist2(pos') > FootprintDist2(lastOutsidePosition)
              \/ CentreDist2(pos') > CentreDist2(lastOutsidePosition)
           /\ ~InFootprint(pos') ]_vars

\* C13: an interact made right after an exit, from the place the exit left the
\* avatar at and with the view unchanged, does not enter a building again.
C13_NoImmediateReentry ==
    [][ ev.op = "interact" /\ ev.result = "exit" /\ InteractStep /\ ev'.arg = ev.arg
        => ev'.result # "enter" ]_vars

\* Boxes of the trees and chests placed in the world.
ExteriorBoxes ==
    TreeBoxes(heightMap, trees["tree"]) \cup ChestCollisionBoxes(heightMap, chests["chest"])

\* C14: the set of collidables the collision rays query is divided by mode:
\* inside a building it is the interior's collidables and holds no exterior
\* object, outside it holds no interior collidable.
C14_CollidablesByMode ==
    IF Truthy(insideBuilding)
    THEN Boxes = InteriorBoxes /\ Boxes \cap ExteriorBoxes = {}
    ELSE Boxes \subseteq ExteriorBoxes /\ Boxes \cap InteriorBoxes = {}

C14_Witness ==
    /\ ev.op = "tick" /\ ev.result = "moved"
    /\ Truthy(insideBuilding)
    /\ Boxes = InteriorBoxes
    /\ ExteriorBoxes # {}

\* C15: outside, the set of collidables the collision rays query holds the
\* boxes of every tree, of every building and of every chest placed in the world.
C15_AllPlacedCollidable ==
    ~Truthy(insideBuilding)
    => /\ TreeBoxes(heightMap, trees["tree"]) \subseteq Boxes
       /\ ChestCollisionBoxes(heightMap, chests["chest"]) \subseteq Boxes
       /\ BuildingMeshes(heightMap, buildings["building"]) \subseteq Boxes

\* The upper bound of a simulation step: 0.1 s.
StepBound == 2

\* C16: whatever time a frame took, the delta the frame hands to the
\* simulation tick is at most the upper bound of 0.1 s.
C16_DeltaBounded ==
    [][ \A frame \in Frames, keys \in JumpKeys :
            animateFrame(frame, keys) => getDelta(frame) <= StepBound ]_vars

\* The height-map cell of a world coordinate, and the next sample line.
CellOf(c) == (c + (WorldSize * BlockSize) \div 2) \div BlockSize
CornerOf(c) == CeilDiv(c + (WorldSize * BlockSize) \div 2, BlockSize)
CellInGrid(x, z) == InGrid(CellOf(x)) /\ InGrid(CellOf(z))
CornersInGrid(x, z) ==
    CellOf(x) >= 0 /\ CornerOf(x) < WorldSize /\ CellOf(z) >= 0 /\ CornerOf(z) < WorldSize
Aligned(c) == CellOf(c) = CornerOf(c)

\* C18: a world constructed again with the same seed has the height grid of
\* the world constructed before.
C18_SameSeedSameGrid ==
    [][ ev'.op = "construct" => heightMap' = heightMap ]_vars

\* C19: getHeightAt returns 0 for a point whose cell index is outside the
\* grid, and getInterpolatedHeightAt returns what getHeightAt returns for a
\* point one of whose four corner cells is outside the grid, the top and
\* right edges included.
C19_OutOfRangeFallback ==
    /\ ev.op = "getHeightAt" /\ ~CellInGrid(ev.mid.x, ev.mid.z) => ev.mid.y = 0
    /\ ev.op = "getInterpolatedHeightAt" /\ ~CornersInGrid(ev.mid.x, ev.mid.z)
       => ev.mid.y = getHeightAt(heightMap, ev.mid.x, ev.mid.z)

C19_Witness ==
    /\ ev.op = "getInterpolatedHeightAt"
    /\ CellInGrid(ev.mid.x, ev.mid.z)
    /\ CornerOf(ev.mid.x) = WorldSize
    /\ ev.mid.y = NoiseLevel

\* The most the interpolated height can differ between two points one length
\* unit apart: the slope between the lowest and the highest sample, and the
\* rounding of the two values.
Samples(hm) == {hm[i][j] : i \in 0..(WorldSize - 1), j \in 0..(WorldSize - 1)}
Spread(hm) ==
    (CHOOSE h \in Samples(hm) : \A g \in Samples(hm) : g <= h)
        - (CHOOSE h \in Samples(hm) : \A g \in Samples(hm) : g >= h)
Slope(hm) == CeilDiv(Spread(hm), BlockSize) + 2
Neighbours(x, z) == {<< x - 1, z >>, << x + 1, z >>, << x, z - 1 >>, << x, z + 1 >>}

\* C20 as stated: at a point of a cell of the grid, the interpolated height is
\* the stored sample when the point is grid-aligned, and it makes no jump
\* towards the points next to it on either side that are in the grid too.
C20_Continuous ==
    ev.op = "getInterpolatedHeightAt" /\ CellInGrid(ev.mid.x, ev.mid.z)
    => /\ Aligned(ev.mid.x) /\ Aligned(ev.mid.z)
          => ev.mid.y = heightMap[CellOf(ev.mid.x)][CellOf(ev.mid.z)]
       /\ \A n \in Neighbours(ev.mid.x, ev.mid.z) :
              CellInGrid(n[1], n[2])
              => Abs(getInterpolatedHeightAt(heightMap, n[1], n[2]) - ev.mid.y)
                     <= Slope(heightMap)

\* C20: at a point whose four corner samples are in the grid, the
\* interpolated height is the stored sample when the point is grid-aligned,
\* and it makes no jump towards the points next to it on either side whose
\* corners are in the grid too.
C20_ContinuousBetweenSamples ==
    ev.op = "getInterpolatedHeightAt" /\ CornersInGrid(ev.mid.x, ev.mid.z)
    => /\ Aligned(ev.mid.x) /\ Aligned(ev.mid.z)
          => ev.mid.y = heightMap[CellOf(ev.mid.x)][CellOf(ev.mid.z)]
       /\ \A n \in Neighbours(ev.mid.x, ev.mid.z) :
              CornersInGrid(n[1], n[2])
              => Abs(getInterpolatedHeightAt(heightMap, n[1], n[2]) - ev.mid.y)
                     <= Slope(heightMap)

C20_Witness ==
    /\ ev.op = "getInterpolatedHeightAt"
    /\ CornersInGrid(ev.mid.x, ev.mid.z)
    /\ Aligned(ev.mid.x) /\ ~Aligned(ev.mid.z)
    /\ ev.mid.y > 0 /\ ev.mid.y < NoiseLevel
    /\ getInterpolatedHeightAt(heightMap, ev.mid.x - 1, ev.mid.z) < ev.mid.y
    /\ getInterpolatedHeightAt(heightMap, ev.mid.x + 1, ev.mid.z) < ev.mid.y

\* C17: at every point, grid-aligned or not, that is nearer to the village
\* centre than the village radius, getHeightAt is exactly 0.
C17_VillageFlat ==
    /\ ev.op = "getHeightAt"
    /\ ev.mid.x * ev.mid.x + ev.mid.z * ev.mid.z < VillageRadius * VillageRadius
    => ev.mid.y = 0

\* The footprint of a registered building holds the point: within half the
\* width and half the depth of its centre, and between its base and its top.
InFootprintOf(b, p) ==
    /\ 2 * Abs(p.x - b.position.x) <= b.width
    /\ 2 * Abs(p.z - b.position.z) <= b.depth
    /\ b.position.y <= p.y
    /\ p.y <= b.position.y + b.height

\* C21: isInsideBuilding answers true exactly when the footprint of some
\* registered building holds the point; it answers false for an empty
\* registry and for a point outside every footprint.
C21_InsideIffInFootprint ==
    ev.op = "isInsideBuilding"
    => /\ ev.result = "inside"
          <=> \E i \in 1..Len(buildings) : InFootprintOf(buildings[i], ev.mid)
       /\ Len(buildings) = 0 => ev.result = "outside"

C21_Witness ==
    /\ ev.op = "isInsideBuilding" /\ ev.result = "inside"
    /\ Len(buildings) = 2
    /\ ~InFootprintOf(buildings[1], ev.mid)
    /\ 2 * Abs(ev.mid.x - buildings[2].position.x) = buildings[2].width
    /\ ev.mid.y = buildings[2].position.y + buildings[2].height

\* The avatar b after the vertical part alone of an exterior frame of length
\* dt: push-back, grounded test, vertical move and terrain clamp where it is.
VerticalOnly(b, dt) ==
    LET b0 == checkAllDirectionCollisions(b, Boxes)
        terrainHeight == getInterpolatedHeightAt(heightMap, b0.x, b0.z)
    IN  ApplyVertical(ApplyGravity(b0, dt, terrainHeight), dt, terrainHeight)

\* C22: a frame whose horizontal move is rejected, by an object or by the
\* slope veto, still moves the avatar vertically by velocity.y * delta.
C22_VerticalKept ==
    [][ \A dt \in Deltas, keys \in JumpKeys :
            animate(dt, keys) /\ ev'.result \in {"blocked", "veto"}
            => ev'.mid.y = VerticalOnly(Body, dt).y ]_vars

\* C24: the slope veto never reverts the move of an airborne avatar; the frame
\* of an airborne avatar that is not blocked by an object ends with the avatar
\* at or above its height over the terrain it moved to.
C24_AirborneClimbs ==
    ev.op = "tick" /\ ~Truthy(insideBuilding) /\ ~ev.grounded
    => /\ ev.result # "veto"
       /\ ev.result = "moved" => ev.mid.y >= TerrainUnder(ev.mid) + Height

C24_Witness ==
    /\ ev.op = "tick" /\ ev.result = "moved" /\ ~ev.grounded
    /\ ~Truthy(insideBuilding)
    /\ ev.mid.z = -(BlockSize \div 2)
    /\ TerrainUnder(ev.mid) > SlopeLimit
    /\ ev.mid.y = TerrainUnder(ev.mid) + Height
    /\ ev.mid.canJump

\* The avatar is outside and higher above the terrain than its own height.
IsAirborne == ~Truthy(insideBuilding) /\ pos.y - TerrainUnder(Body) > Height

\* C23: outside, an avatar that is airborne is, as the frames go on, found
\* grounded by some frame, whatever the keys held and the objects about.
C23_AirborneLands ==
    IsAirborne ~> (ev.op = "tick" /\ ev.grounded)

\* ------------------------------------------------------------------ C26
\* The downward ray of checkAllDirectionCollisions, cast from the centre of
\* the avatar b: the distance of its first hit, and whether it fires.
DownHit(b, boxes) == NearestHit(Vec(b.x, b.y - Height \div 2, b.z), Vec(0, -1, 0), boxes)
DownRayFires(b, boxes) == DownHit(b, boxes) # NoHit /\ DownHit(b, boxes) < Height \div 2
\* The avatar rests on a collidable: the first object under its centre is at
\* half its height, under its feet.
StandsOnCollidable == DownHit(Body, Boxes) = Height \div 2

\* Walking and jumping about the ledge and the tree, and going in and out of
\* the building behind the tree, every frame as long as a frame gets.
NextStand ==
    \/ \E keys \in JumpKeys : animate(MaxDelta, keys)
    \/ jump
    \/ \E pitch \in Pitches : interact(pitch)
SpecStand == InitPerch /\ [][NextStand]_vars

\* C26: a frame whose closing downward ray fires ends with velocity.y = 0 and
\* canJump = true, and an avatar that a frame finds and leaves standing on a
\* collidable object ends the frame able to jump, outside as well as inside a
\* building.
C26_StandingCanJump ==
    [][ ev'.op = "tick" /\ ev' # ev
        => /\ DownRayFires(ev'.mid, Boxes) => (vy' = 0 /\ canJump')
           /\ (StandsOnCollidable /\ StandsOnCollidable') => canJump' ]_vars
\* Perched on an object outside with the downward ray holding the avatar up.
C26_Witness ==
    /\ ev.op = "tick" /\ DownRayFires(ev.mid, Boxes) /\ ~ev.grounded
    /\ ~Truthy(insideBuilding) /\ StandsOnCollidable /\ canJump
\* Standing on the floor of the interior.
C26_InsideWitness ==
    /\ ev.op = "tick" /\ Truthy(insideBuilding) /\ StandsOnCollidable /\ canJump

\* ------------------------------------------------------------------ C25
\* A height field that is 0 everywhere: the floor of an interior.
FloorRow == [iz \in 0..(WorldSize - 1) |-> 0]
\* What the vertical part of a frame decides.
Vertical(b) == [y |-> b.y, vy |-> b.vy, canJump |-> b.canJump]
\* The exterior routine of update() run over the floor of the interior.
ExteriorOverFloor(b0, dt, keys) ==
    GroundExterior(b0, 0, dt, keys, yaw, Boxes, HeightMapOf(FloorRow)).body

\* C25: inside a building a frame leaves velocity.y, position.y and canJump as
\* the exterior routine of update() leaves them over ground of height 0, from
\* the same avatar, keys and delta.
C25_InteriorAsExterior ==
    [][ \A keys \in JumpKeys :
            Truthy(insideBuilding) /\ animate(MaxDelta, keys)
            => Vertical(ev'.mid)
               = Vertical(ExteriorOverFloor(checkAllDirectionCollisions(Body, Boxes),
                                            MaxDelta, keys)) ]_vars

\* ------------------------------------------------------------------ C30
\* Game.updateDebugInfo: the Location line, from
\* isInsideBuilding = this.player.insideBuilding !== null.
Location == IF insideBuilding # Null THEN "Inside Building" ELSE "Outside"

\* C30: the Location line a frame draws reads "Inside Building" exactly when
\* the avatar is inside a building: before any entry, while inside and after
\* every exit.
C30_LocationShowsMode ==
    ev.op = "tick" => (Location = "Inside Building" <=> Truthy(insideBuilding))

\* ------------------------------------------------------------------ C29
\* The avatar as update() has it when it tests the horizontal move: after the
\* opening collision pass and the vertical part that precedes the test.
PreMove(b, dt) ==
    LET b0 == checkAllDirectionCollisions(b, Boxes)
    IN  IF Truthy(insideBuilding)
        THEN UpdateInterior(b0, dt, NoKey, yaw, Boxes).body
        ELSE ApplyGravity(b0, dt, getInterpolatedHeightAt(heightMap, b0.x, b0.z))
\* The direction controls.moveRight / controls.moveForward displace the avatar in.
Displacement(keys, q) ==
    Vec(Right(q).x * DirX(keys) + Forward(q).x * DirZ(keys), 0,
        Right(q).z * DirX(keys) + Forward(q).z * DirZ(keys))
\* A collidable lies within the collision radius of the centre of b along d.
WithinRadiusAlong(b, d, boxes) ==
    HitWithin(NearestHit(Vec(b.x, b.y - Height \div 2, b.z), d, boxes), d, Radius)

\* Every combination of the four movement keys.
KeyCombinations ==
    {Keys(f, k, l, r) : f \in BOOLEAN, k \in BOOLEAN, l \in BOOLEAN, r \in BOOLEAN}

\* C29: whatever the heading and the keys held, the frame that comes next
\* rejects its horizontal move exactly when a collidable lies within the
\* collision radius along the displacement the move would apply.
C29_TestAlongDisplacement ==
    \A dt \in Deltas, keys \in KeyCombinations :
        checkObjectCollisions(PreMove(Body, dt), keys, Boxes)
        <=> WithinRadiusAlong(PreMove(Body, dt), Displacement(keys, yaw), Boxes)

\* ------------------------------------------------------------------ C27
\* The Player of Player.ts: its insideBuilding is a boolean that update()
\* recomputes from the position at the end of every frame.
\* A building of the village two blocks ahead of the starting point.
Cottage == [position |-> Vec(0, 0, -2 * BlockSize),
            width |-> 2 * BlockSize, depth |-> 2 * BlockSize, height |-> 3 * BlockSize]
CottageBox ==
    Box(-BlockSize, BlockSize, 0, 3 * BlockSize, -3 * BlockSize, -BlockSize)
\* updateGroundCheck: the ray is cast from the camera position along the
\* raycaster's initial direction (0, 0, -1); canJump is whether its first hit
\* is no farther than height + 0.1.
GroundCheckReach == Height + 4
updateGroundCheck(p) ==
    LET t == NearestHit(p, Vec(0, 0, -1), {CottageBox})
    IN  t # NoHit /\ t <= GroundCheckReach
\* Player.ts update(delta) with checkIfInsideBuilding()
updateTs(dt, keys) ==
    LET v1 == vy - Gravity * dt
        moved == MoveControls(Body, keys, dt, yaw)
        y1 == pos.y + v1 * dt
        th == getInterpolatedHeightAt(heightMap, moved.x, moved.z)
        landed == y1 < th + Height
        p == Vec(moved.x, IF landed THEN th + Height ELSE y1, moved.z)
        jumpable == IF landed THEN TRUE ELSE updateGroundCheck(pos)
    IN  /\ InWindow(p, Undefined)
        /\ pos' = p
        /\ vy' = IF landed THEN 0 ELSE v1
        /\ canJump' = jumpable
        /\ insideBuilding' = isInsideBuilding(buildings, p)
        /\ ev' = Event("tick", "moved", landed,
                       [x |-> p.x, y |-> p.y, z |-> p.z,
                        vy |-> IF landed THEN 0 ELSE v1, canJump |-> jumpable], 0)
        /\ UNCHANGED << yaw, lastOutsidePosition, outsideSceneObjects, interiorGroup,
                        scene, heightMap, buildings, trees, chests >>

\* Game of main.ts as constructed: the avatar on level ground at the origin,
\* outside the cottage.
InitWalkIn ==
    /\ buildings = << Cottage >>
    /\ heightMap = HeightMapOf(FloorRow)
    /\ trees = [t \in {"tree"} |-> [x |-> -3 * BlockSize, z |-> 0]]
    /\ chests = [c \in {"chest"} |-> [x |-> -2 * BlockSize, z |-> BlockSize]]
    /\ scene = ExteriorChildren
    /\ pos = Vec(0, Height, 0)
    /\ vy = 0
    /\ canJump = FALSE
    /\ yaw = 0
    /\ insideBuilding = FALSE
    /\ lastOutsidePosition = Undefined
    /\ outsideSceneObjects = Undefined
    /\ interiorGroup = Null
    /\ ev = Event("init", "none", FALSE, [x |-> 0, y |-> 0, z |-> 0, vy |-> 0, canJump |-> FALSE], 0)

NextWalkIn ==
    \/ \E keys \in WalkKeys : updateTs(MaxDelta, keys)
    \/ jump

SpecWalkIn == InitWalkIn /\ [][NextWalkIn]_vars

\* The mode and the interior session.
Session == << insideBuilding, interiorGroup, outsideSceneObjects, lastOutsidePosition >>

\* C27: the mode and the interior session change only in a step of interact();
\* a frame, a jump or a death leaves them as they were.
C27_ModeOnlyByInteract ==
    [][ Session' # Session => ev'.op = "interact" ]_vars

\* ------------------------------------------------------------------ C28
\* Player.die (and takeDamage with the last of the health): the avatar is put
\* at (0, height, 0) with no velocity, in whichever scene it is.
die ==
    /\ pos' = Vec(0, Height, 0)
    /\ vy' = 0
    /\ ev' = Event("die", "reset", FALSE, Body, 0)
    /\ UNCHANGED << canJump, yaw, insideBuilding, lastOutsidePosition, outsideSceneObjects,
                    interiorGroup, scene, heightMap, buildings, trees, chests >>

\* Walking, turning, going in and out of the building, and dying.
NextDie ==
    \/ \E keys \in WalkKeys : animate(MaxDelta, keys)
    \/ \E q \in Yaws : look(q)
    \/ \E pitch \in Pitches : interact(pitch)
    \/ die
SpecDie == InitJump /\ [][NextDie]_vars

\* The avatar a frame of length dt leaves of the avatar b, the camera turned to q.
FrameEndAt(b, dt, keys, q) ==
    checkAllDirectionCollisions(
        update(b, dt, keys, q, Boxes, heightMap, insideBuilding).body, Boxes)
\* The frames within which the way to the door is walked.
EscapeFrames == 8
\* Backward is the only key held: with the camera as at the start, towards +z.
BackwardOnly == Keys(FALSE, TRUE, FALSE, FALSE)
\* Whether the avatar b, walking backwards with the camera turned as at the
\* start, is within reach of the interior door after at most n frames.
RECURSIVE ReachesDoor(_, _)
ReachesDoor(b, n) ==
    IF NearInteriorDoor(Vec(b.x, b.y, b.z)) THEN TRUE
    ELSE IF n = 0 THEN FALSE
    ELSE ReachesDoor(FrameEndAt(b, MaxDelta, BackwardOnly, 0), n - 1)

\* C28: from every state inside a building, also right after the entry and
\* after die() has put the avatar at the origin, frames of walking bring the
\* avatar within reach of the interior door, where interact() takes it outside.
C28_InteriorNoTrap ==
    Truthy(insideBuilding)
    => /\ Truthy(lastOutsidePosition)
       /\ ReachesDoor(Body, EscapeFrames)
\* Inside, dead and put back at the origin, out of reach of the door.
C28_Witness ==
    /\ Truthy(insideBuilding) /\ ev.op = "die"
    /\ ~NearInteriorDoor(pos)

====
